---------------------------- MODULE Spec2Model ----------------------------
(***************************************************************************)
(* A model of hypercorn's lifespan state machine                           *)
(* (src/hypercorn/asyncio/lifespan.py) and of its WSGI adapter             *)
(* (src/hypercorn/app_wrappers.py).                                        *)
(*                                                                         *)
(* Lifespan: one handle_lifespan task runs the application; any number of  *)
(* wait_for_startup / wait_for_shutdown calls run as concurrent tasks of   *)
(* the same cooperative loop.  A step of the model is the code a task runs *)
(* between two suspension points (await).  The application is the          *)
(* environment: it may receive, send any message, catch or let go what     *)
(* asgi_send raises, raise an exception of its own, or return.             *)
(***************************************************************************)
EXTENDS Naturals, Sequences, FiniteSets

\* ------------------------------------------------------------- bounds
\* Number of waiter calls (wait_for_startup / wait_for_shutdown) of a run.
NumWaiters == 2
\* Largest config.max_app_queue_size tried (the capacity is picked in Init).
MaxQueueSize == 2

Waiters == 1..NumWaiters

\* ------------------------------------------------------------ lifespan
VARIABLES
    supported,          \* Lifespan.supported
    started,            \* Lifespan._started (asyncio.Event)
    startup,            \* Lifespan.startup  (asyncio.Event)
    shutdown,           \* Lifespan.shutdown (asyncio.Event)
    app_queue,          \* Lifespan.app_queue: messages not yet received
    max_app_queue_size, \* config.max_app_queue_size
    hl_pc,              \* position of the handle_lifespan task
    app_exc,            \* exception raised in the application call and
                        \* not caught by the application so far
    hl_result,          \* how handle_lifespan ended
    hl_error,           \* stage of the LifespanFailureError it re-raised
    log,                \* records written to config.log, by severity
    delivered,          \* messages asgi_receive returned, in order
    waiter              \* the waiter calls

lvars == <<supported, started, startup, shutdown, app_queue,
           max_app_queue_size, hl_pc, app_exc, hl_result, hl_error, log,
           delivered, waiter>>

\* ------------------------------------------------------- WSGI adapter
VARIABLES
    scope,              \* the scope passed to WSGIWrapper.__call__
    max_body_size,      \* WSGIWrapper.max_body_size
    w_pc,               \* position of the __call__ coroutine
    body,               \* handle_http's bytearray
    receive_calls,      \* number of receive() calls made
    received,           \* the events receive() returned, in order
    environ,            \* what _build_environ returned, once called
    spawn_calls,        \* number of sync_spawn calls made
    app_calls,          \* number of times the WSGI application ran
    response,           \* (status_code, headers, body) of handle_http
    sent,               \* events passed to send(), in order
    w_error,            \* exception that left __call__
    trace               \* the request's steps, in order

wvars == <<scope, max_body_size, w_pc, body, receive_calls, received,
           environ, spawn_calls, app_calls, response, sent, w_error, trace>>

vars == <<lvars, wvars>>

Stages == {"startup", "shutdown"}

\* The message kinds an application may pass to asgi_send; "other" stands
\* for every kind that is none of the four lifespan replies.
SendTypes == {"lifespan.startup.complete", "lifespan.shutdown.complete",
              "lifespan.startup.failed", "lifespan.shutdown.failed", "other"}

\* A waiter call: the function called, its position, the stage its
\* LifespanTimeoutError carries, whether it has enqueued its request, and
\* whether it found lifespan supported and its signal unset when it
\* checked.
IdleWaiter == [fn |-> "none", pc |-> "idle", err |-> "none", enq |-> FALSE,
               early |-> FALSE]

\* State after Lifespan.__init__; the two handshakes have not begun.
LifespanInit ==
    /\ supported = TRUE
    /\ started = FALSE
    /\ startup = FALSE
    /\ shutdown = FALSE
    /\ app_queue = <<>>
    /\ max_app_queue_size \in 1..MaxQueueSize
    /\ hl_pc = "created"
    /\ app_exc = "none"
    /\ hl_result = "running"
    /\ hl_error = "none"
    /\ log = <<>>
    /\ delivered = <<>>
    /\ waiter = [w \in Waiters |-> IdleWaiter]

\* Mutant: the queue takes one message more than its capacity.
QueueFullOffByOne == Len(app_queue) > max_app_queue_size

\* asyncio.Queue.full()
QueueFull == Len(app_queue) >= max_app_queue_size

\* -------------------------------------------------- handle_lifespan

\* The finally clause: both completion signals are set, the task ends.
Finally(result, stage) ==
    /\ startup' = TRUE
    /\ shutdown' = TRUE
    /\ hl_pc' = "done"
    /\ hl_result' = result
    /\ hl_error' = stage

\* except LifespanFailureError: raise (then the finally clause).
ExceptLifespanFailure(stage) ==
    /\ Finally("crashed", stage)
    /\ UNCHANGED <<supported, log>>

\* Mutant: every record of the except Exception clause is a warning.
LogSeverityAlwaysWarning == "warning"

\* The severity of the record the except Exception clause writes.
LogSeverity ==
    IF ~startup THEN "warning"
    ELSE IF ~shutdown THEN "error"
    ELSE "error"

\* Mutant: the except Exception clause logs but leaves supported set.
ExceptExceptionKeepsSupported ==
    /\ log' = Append(log, LogSeverity)
    /\ hl_pc' = "logging"
    /\ UNCHANGED <<supported, startup, shutdown, hl_result, hl_error>>

\* except Exception: supported is cleared and one record is logged; the
\* task is suspended in the await of the log call.
ExceptException ==
    /\ supported' = FALSE
    /\ log' = Append(log, LogSeverity)
    /\ hl_pc' = "logging"
    /\ UNCHANGED <<startup, shutdown, hl_result, hl_error>>

\* handle_lifespan up to its first suspension inside the application.
HandleLifespanStart ==
    /\ hl_pc = "created"
    /\ started' = TRUE
    /\ hl_pc' = "in_app"
    /\ UNCHANGED <<supported, startup, shutdown, app_queue,
                   max_app_queue_size, app_exc, hl_result, hl_error, log,
                   delivered, waiter, wvars>>

\* The application awaits asgi_receive and a message is there.
AsgiReceive ==
    /\ hl_pc = "in_app"
    /\ app_queue # <<>>
    /\ delivered' = Append(delivered, Head(app_queue))
    /\ app_queue' = Tail(app_queue)
    /\ UNCHANGED <<supported, started, startup, shutdown,
                   max_app_queue_size, hl_pc, app_exc, hl_result, hl_error,
                   log, waiter, wvars>>

\* Mutant: a shutdown reply sets shutdown-complete and clears
\* startup-complete, as if one variable held the machine's stage.
AsgiSendEffectClears(type) ==
    IF type = "lifespan.startup.complete"
    THEN [startup |-> TRUE, shutdown |-> shutdown, exc |-> "none"]
    ELSE IF type = "lifespan.shutdown.complete"
    THEN [startup |-> FALSE, shutdown |-> TRUE, exc |-> "none"]
    ELSE IF type = "lifespan.startup.failed"
    THEN [startup |-> TRUE, shutdown |-> shutdown, exc |-> "failure_startup"]
    ELSE IF type = "lifespan.shutdown.failed"
    THEN [startup |-> FALSE, shutdown |-> TRUE, exc |-> "failure_shutdown"]
    ELSE [startup |-> startup, shutdown |-> shutdown, exc |-> "unexpected"]

\* What asgi_send does with a message of kind type: the signals after it
\* and the exception it raises ("none" when it returns).
AsgiSendEffect(type) ==
    IF type = "lifespan.startup.complete"
    THEN [startup |-> TRUE, shutdown |-> shutdown, exc |-> "none"]
    ELSE IF type = "lifespan.shutdown.complete"
    THEN [startup |-> startup, shutdown |-> TRUE, exc |-> "none"]
    ELSE IF type = "lifespan.startup.failed"
    THEN [startup |-> TRUE, shutdown |-> shutdown, exc |-> "failure_startup"]
    ELSE IF type = "lifespan.shutdown.failed"
    THEN [startup |-> startup, shutdown |-> TRUE, exc |-> "failure_shutdown"]
    ELSE [startup |-> startup, shutdown |-> shutdown, exc |-> "unexpected"]

\* The application calls asgi_send(message).
AsgiSend(type) ==
    /\ hl_pc = "in_app"
    /\ LET e == AsgiSendEffect(type) IN
        /\ startup' = e.startup
        /\ shutdown' = e.shutdown
        /\ app_exc' = e.exc
        /\ hl_pc' = IF e.exc = "none" THEN "in_app" ELSE "app_exc"
    /\ UNCHANGED <<supported, started, app_queue, max_app_queue_size,
                   hl_result, hl_error, log, delivered, waiter, wvars>>

\* The application catches what asgi_send raised and carries on.
AppCatches ==
    /\ hl_pc = "app_exc"
    /\ hl_pc' = "in_app"
    /\ app_exc' = "none"
    /\ UNCHANGED <<supported, started, startup, shutdown, app_queue,
                   max_app_queue_size, hl_result, hl_error, log, delivered,
                   waiter, wvars>>

\* Mutant: the except LifespanFailureError clause is missing, so a
\* lifespan failure is absorbed like any other exception.
HandleAbsorbsFailure(exc) == ExceptException

\* Mutant: the handler re-raises an UnexpectedMessageError as it does a
\* lifespan failure.
HandleReraisesUnexpected(exc) ==
    IF exc = "failure_startup" THEN ExceptLifespanFailure("startup")
    ELSE IF exc = "failure_shutdown" THEN ExceptLifespanFailure("shutdown")
    ELSE IF exc = "unexpected" THEN ExceptLifespanFailure("none")
    ELSE ExceptException

\* The handler handle_lifespan runs for an exception leaving the app call.
Handle(exc) ==
    IF exc = "failure_startup" THEN ExceptLifespanFailure("startup")
    ELSE IF exc = "failure_shutdown" THEN ExceptLifespanFailure("shutdown")
    ELSE ExceptException

\* The application does not catch what asgi_send raised: it leaves the
\* application call and reaches handle_lifespan's handlers.
AppPropagates ==
    /\ hl_pc = "app_exc"
    /\ Handle(app_exc)
    /\ UNCHANGED <<started, app_queue, max_app_queue_size, app_exc,
                   delivered, waiter, wvars>>

\* The application raises an exception of its own (not a lifespan failure).
AppRaises ==
    /\ hl_pc = "in_app"
    /\ Handle("exception")
    /\ app_exc' = "exception"
    /\ UNCHANGED <<started, app_queue, max_app_queue_size, delivered,
                   waiter, wvars>>

\* Mutant: a normal return of the application clears supported too.
AppReturnsUnsupported ==
    /\ hl_pc = "in_app"
    /\ Finally("returned", "none")
    /\ supported' = FALSE
    /\ UNCHANGED <<started, app_queue, max_app_queue_size, app_exc, log,
                   delivered, waiter, wvars>>

\* The application call returns normally: only the finally clause runs.
AppReturns ==
    /\ hl_pc = "in_app"
    /\ Finally("returned", "none")
    /\ UNCHANGED <<supported, started, app_queue, max_app_queue_size,
                   app_exc, log, delivered, waiter, wvars>>

\* The log call of the except Exception clause returns; finally runs.
LogDone ==
    /\ hl_pc = "logging"
    /\ Finally("absorbed", "none")
    /\ UNCHANGED <<supported, started, app_queue, max_app_queue_size,
                   app_exc, log, delivered, waiter, wvars>>

\* ------------------------------------------------------------ waiters

\* The event a waiter for the given stage blocks on.
Signal(stage) == IF stage = "startup" THEN startup ELSE shutdown

\* The message a waiter for the given stage enqueues.
Request(stage) == IF stage = "startup" THEN "lifespan.startup"
                  ELSE "lifespan.shutdown"

\* What a waiter's steps leave alone.
WaiterFrame ==
    UNCHANGED <<supported, started, startup, shutdown, max_app_queue_size,
                hl_pc, app_exc, hl_result, hl_error, log, delivered, wvars>>

\* A call begins: it awaits _started.  Calls are numbered in call order.
Call(w, fn) ==
    /\ waiter[w].pc = "idle"
    /\ \A v \in Waiters : v < w => waiter[v].pc # "idle"
    /\ waiter' = [waiter EXCEPT ![w].fn = fn, ![w].pc = "started_wait"]
    /\ UNCHANGED app_queue
    /\ WaiterFrame

\* Mutant: the call does not wait for _started.
AfterStartedSkipsBarrier(w, stage) ==
    /\ waiter[w].pc = "started_wait"
    /\ IF ~supported
       THEN /\ waiter' = [waiter EXCEPT ![w].pc = "returned_unsupported"]
            /\ UNCHANGED app_queue
       ELSE IF QueueFull
       THEN /\ waiter' = [waiter EXCEPT ![w].pc = "put",
                                        ![w].early = ~Signal(stage)]
            /\ UNCHANGED app_queue
       ELSE /\ app_queue' = Append(app_queue, Request(stage))
            /\ waiter' = [waiter EXCEPT ![w].pc = "signal_wait",
                                        ![w].enq = TRUE,
                                        ![w].early = ~Signal(stage)]
    /\ WaiterFrame

\* After _started: return at once when unsupported; otherwise put the
\* request (without suspending when the queue has room) and start the
\* timed wait, or block in put when the queue is full.
AfterStarted(w, stage) ==
    /\ waiter[w].pc = "started_wait"
    /\ started
    /\ IF ~supported
       THEN /\ waiter' = [waiter EXCEPT ![w].pc = "returned_unsupported"]
            /\ UNCHANGED app_queue
       ELSE IF QueueFull
       THEN /\ waiter' = [waiter EXCEPT ![w].pc = "put",
                                        ![w].early = ~Signal(stage)]
            /\ UNCHANGED app_queue
       ELSE /\ app_queue' = Append(app_queue, Request(stage))
            /\ waiter' = [waiter EXCEPT ![w].pc = "signal_wait",
                                        ![w].enq = TRUE,
                                        ![w].early = ~Signal(stage)]
    /\ WaiterFrame

\* A waiter blocked in app_queue.put finds room.
Put(w, stage) ==
    /\ waiter[w].pc = "put"
    /\ ~QueueFull
    /\ app_queue' = Append(app_queue, Request(stage))
    /\ waiter' = [waiter EXCEPT ![w].pc = "signal_wait", ![w].enq = TRUE]
    /\ WaiterFrame

\* The awaited event is set: the call returns.
Return(w, stage) ==
    /\ waiter[w].pc = "signal_wait"
    /\ Signal(stage)
    /\ waiter' = [waiter EXCEPT ![w].pc = "returned"]
    /\ UNCHANGED app_queue
    /\ WaiterFrame

\* Mutant: a timed-out wait also cancels the handle_lifespan task.
TimeoutCancelsApp(w, stage) ==
    /\ waiter[w].pc = "signal_wait"
    /\ waiter' = [waiter EXCEPT ![w].pc = "raised", ![w].err = stage]
    /\ hl_pc' = "done"
    /\ UNCHANGED <<app_queue, supported, started, startup, shutdown,
                   max_app_queue_size, app_exc, hl_result, hl_error, log,
                   delivered, wvars>>

\* asyncio.wait_for times out: LifespanTimeoutError(stage) is raised.
Timeout(w, stage) ==
    /\ waiter[w].pc = "signal_wait"
    /\ waiter' = [waiter EXCEPT ![w].pc = "raised", ![w].err = stage]
    /\ UNCHANGED app_queue
    /\ WaiterFrame

\* The steps of one wait_for_startup call.
WaitForStartup(w) ==
    /\ waiter[w].fn = "wait_for_startup"
    /\ \/ AfterStarted(w, "startup")
       \/ Put(w, "startup")
       \/ Return(w, "startup")
       \/ Timeout(w, "startup")

\* The steps of one wait_for_shutdown call.
WaitForShutdown(w) ==
    /\ waiter[w].fn = "wait_for_shutdown"
    /\ \/ AfterStarted(w, "shutdown")
       \/ Put(w, "shutdown")
       \/ Return(w, "shutdown")
       \/ Timeout(w, "shutdown")

CallWaitForStartup == \E w \in Waiters : Call(w, "wait_for_startup")
CallWaitForShutdown == \E w \in Waiters : Call(w, "wait_for_shutdown")
WaitForStartupStep == \E w \in Waiters : WaitForStartup(w)
WaitForShutdownStep == \E w \in Waiters : WaitForShutdown(w)
AppSends == \E type \in SendTypes : AsgiSend(type)

\* ------------------------------------------------------- WSGI adapter

\* Longest path and root_path tried, in characters.
MaxPathLen == 1
\* Largest WSGIWrapper.max_body_size tried.
MaxBodySize == 2
\* Longest body chunk one receive() returns, in bytes.
MaxChunkLen == 1
\* The body stream ends by this many receive() calls.
MaxReceives == 2
\* Most start_response calls the application makes in one run.
MaxStartResponseCalls == 1

\* Text is a sequence of characters, bytes a sequence of byte values.
PathChars == {"/", "U+00E9"}
Bytes == {1, 2}

SeqsUpTo(S, n) == UNION {[1..k -> S] : k \in 0..n}

Paths == SeqsUpTo(PathChars, MaxPathLen)
Chunks == SeqsUpTo(Bytes, MaxChunkLen)

\* The scopes tried: http scopes with every path and root_path (or no
\* root_path key at all), and one scope of each other type.
HttpScopes ==
    {[type |-> "http", path |-> p, has_root_path |-> TRUE, root_path |-> r,
      headers |-> <<>>] : p \in Paths, r \in Paths}
    \cup {[type |-> "http", path |-> p, has_root_path |-> FALSE,
           root_path |-> <<>>, headers |-> <<>>] : p \in Paths}

OtherScopes ==
    {[type |-> t, path |-> <<>>, has_root_path |-> FALSE, root_path |-> <<>>,
      headers |-> <<>>] : t \in {"websocket", "lifespan", "other"}}

\* A receive() event: body defaults to b"" and more_body to false when
\* the key is missing.
Messages ==
    {[has_body |-> TRUE, body |-> c, more_body |-> m] :
        c \in Chunks, m \in BOOLEAN}
    \cup {[has_body |-> FALSE, body |-> <<>>, more_body |-> m] : m \in BOOLEAN}

\* message.get("body", b"")
MessageBody(message) == IF message.has_body THEN message.body ELSE <<>>

\* str.startswith
StartsWith(s, prefix) ==
    /\ Len(prefix) <= Len(s)
    /\ SubSeq(s, 1, Len(prefix)) = prefix

\* One character through .encode("utf8").decode("latin1"): an ASCII
\* character is kept, U+00E9 becomes the two characters U+00C3 U+00A9.
Utf8AsLatin1Char(c) == IF c = "U+00E9" THEN <<"U+00C3", "U+00A9">> ELSE <<c>>

RECURSIVE Utf8AsLatin1(_)
Utf8AsLatin1(s) ==
    IF s = <<>> THEN <<>>
    ELSE Utf8AsLatin1Char(Head(s)) \o Utf8AsLatin1(Tail(s))

\* The letters, lower case and upper case, position by position.
LowerLetters == <<"a", "b", "c", "d", "e", "f", "g", "h", "i", "j", "k", "l",
                  "m", "n", "o", "p", "q", "r", "s", "t", "u", "v", "w", "x",
                  "y", "z">>
UpperLetters == <<"A", "B", "C", "D", "E", "F", "G", "H", "I", "J", "K", "L",
                  "M", "N", "O", "P", "Q", "R", "S", "T", "U", "V", "W", "X",
                  "Y", "Z">>

\* One character through str.upper(), and through str.replace("-", "_").
UpperChar(c) ==
    IF \E i \in DOMAIN LowerLetters : LowerLetters[i] = c
    THEN UpperLetters[CHOOSE i \in DOMAIN LowerLetters : LowerLetters[i] = c]
    ELSE c
HyphenToUnderscore(c) == IF c = "-" THEN "_" ELSE c

\* name.upper().replace("-", "_")
UpperUnderscored(name) ==
    [i \in 1..Len(name) |-> HyphenToUnderscore(UpperChar(name[i]))]

\* bytes.decode("latin1"): every byte is the character of the same code
\* point, so header text is written as its characters.
DecodeLatin1(raw) == raw

\* The header names the code tells apart, and the keys it gives them.
content_length == <<"c", "o", "n", "t", "e", "n", "t", "-",
                    "l", "e", "n", "g", "t", "h">>
content_type == <<"c", "o", "n", "t", "e", "n", "t", "-", "t", "y", "p", "e">>
CONTENT_LENGTH == <<"C", "O", "N", "T", "E", "N", "T", "_",
                    "L", "E", "N", "G", "T", "H">>
CONTENT_TYPE == <<"C", "O", "N", "T", "E", "N", "T", "_", "T", "Y", "P", "E">>
HTTP_ == <<"H", "T", "T", "P", "_">>

\* corrected_name of a decoded header name.
CorrectedName(name) ==
    IF name = content_length THEN CONTENT_LENGTH
    ELSE IF name = content_type THEN CONTENT_TYPE
    ELSE HTTP_ \o UpperUnderscored(name)

\* Mutant: a repeated key takes the new value instead of the joined one.
RECURSIVE AddHeadersOverwrites(_, _)
AddHeadersOverwrites(env, headers) ==
    IF headers = <<>> THEN env
    ELSE LET corrected_name == CorrectedName(DecodeLatin1(Head(headers)[1]))
             value == DecodeLatin1(Head(headers)[2])
         IN  AddHeadersOverwrites(
                 [k \in DOMAIN env \cup {corrected_name} |->
                     IF k = corrected_name THEN value ELSE env[k]],
                 Tail(headers))

\* The loop over scope["headers"]: env maps the derived keys set so far to
\* their values.  None of the keys the environ holds before the loop is
\* CONTENT_LENGTH, CONTENT_TYPE or begins with HTTP_, so "corrected_name
\* in environ" asks whether an earlier header gave the same key.
RECURSIVE AddHeaders(_, _)
AddHeaders(env, headers) ==
    IF headers = <<>> THEN env
    ELSE LET corrected_name == CorrectedName(DecodeLatin1(Head(headers)[1]))
             raw_value == DecodeLatin1(Head(headers)[2])
             value == IF corrected_name \in DOMAIN env
                      THEN env[corrected_name] \o <<",">> \o raw_value
                      ELSE raw_value
         IN  AddHeaders(
                 [k \in DOMAIN env \cup {corrected_name} |->
                     IF k = corrected_name THEN value ELSE env[k]],
                 Tail(headers))

\* The environ's header-derived entries before the loop: none.
NoHeaderKeys == [k \in {} |-> <<>>]

NotBuilt == [error |-> "not_built"]

\* Mutant: the root path is stripped without checking that the path
\* starts with it.
BuildEnvironUnchecked(sc, b) ==
    LET script_name == IF sc.has_root_path THEN sc.root_path ELSE <<>>
        suffix == SubSeq(sc.path, Len(script_name) + 1, Len(sc.path))
        path == IF suffix # <<>> THEN suffix ELSE <<"/">>
    IN  [error |-> "none",
         SCRIPT_NAME |-> Utf8AsLatin1(script_name),
         PATH_INFO |-> Utf8AsLatin1(path),
         wsgi_input |-> b,
         headers |-> AddHeaders(NoHeaderKeys, sc.headers)]

\* Mutant: an empty path after the root path is left empty.
BuildEnvironKeepsEmptyPath(sc, b) ==
    LET script_name == IF sc.has_root_path THEN sc.root_path ELSE <<>>
        path == SubSeq(sc.path, Len(script_name) + 1, Len(sc.path))
    IN  IF StartsWith(sc.path, script_name)
        THEN [error |-> "none",
              SCRIPT_NAME |-> Utf8AsLatin1(script_name),
              PATH_INFO |-> Utf8AsLatin1(path),
              wsgi_input |-> b,
              headers |-> AddHeaders(NoHeaderKeys, sc.headers)]
        ELSE [error |-> "InvalidPathError"]

\* _build_environ: the path rule and the keys derived from it; error is
\* "InvalidPathError" when the path does not start with the root path.
BuildEnviron(sc, b) ==
    LET script_name == IF sc.has_root_path THEN sc.root_path ELSE <<>>
        suffix == SubSeq(sc.path, Len(script_name) + 1, Len(sc.path))
        path == IF suffix # <<>> THEN suffix ELSE <<"/">>
    IN  IF StartsWith(sc.path, script_name)
        THEN [error |-> "none",
              SCRIPT_NAME |-> Utf8AsLatin1(script_name),
              PATH_INFO |-> Utf8AsLatin1(path),
              wsgi_input |-> b,
              headers |-> AddHeaders(NoHeaderKeys, sc.headers)]
        ELSE [error |-> "InvalidPathError"]

\* A status line is its words, which single spaces separate.
StatusLines == {<<"200", "OK">>, <<"404", "Not", "Found">>, <<"200">>}
ResponseHeaders == {<<>>, << <<"X-Test", "1">> >>}
Outputs == {<<>>, << <<1>> >>, << <<1>>, <<2>> >>}

\* What one run of the WSGI application does: its start_response calls,
\* the chunks its iterable yields, and whether it raises.
AppBehaviours ==
    [calls : SeqsUpTo([status : StatusLines, headers : ResponseHeaders],
                      MaxStartResponseCalls),
     outputs : Outputs,
     raises : BOOLEAN]

\* status.split(" ", 1)
SplitOnce(status) ==
    IF Len(status) = 1 THEN <<status[1]>>
    ELSE <<status[1], Tail(status)>>

\* Whether int(raw) succeeds, and its value.
IsInt(raw) == raw \in {"200", "404"}
IntOf(raw) == IF raw = "200" THEN 200 ELSE 404

\* name.lower()
Lower(name) == IF name = "X-Test" THEN "x-test" ELSE name

LowerHeaders(headers) ==
    [i \in 1..Len(headers) |-> <<Lower(headers[i][1]), headers[i][2]>>]

\* Whether start_response(status, ...) raises ValueError.
StartResponseFails(call) ==
    \/ Len(SplitOnce(call.status)) # 2
    \/ ~IsInt(SplitOnce(call.status)[1])

RECURSIVE Concat(_)
Concat(chunks) ==
    IF chunks = <<>> THEN <<>> ELSE Head(chunks) \o Concat(Tail(chunks))

\* run_app: the response tuple, or the exception that leaves it.  The
\* last start_response call decides status and headers; without any call
\* headers was never bound and the return statement raises.
RunAppResult(beh) ==
    LET n == Len(beh.calls)
        last == beh.calls[n]
    IN  IF \E i \in 1..n : StartResponseFails(beh.calls[i])
        THEN [error |-> "ValueError"]
        ELSE IF beh.raises
        THEN [error |-> "ApplicationError"]
        ELSE IF n = 0
        THEN [error |-> "UnboundLocalError"]
        ELSE [error |-> "none",
              status_code |-> IntOf(SplitOnce(last.status)[1]),
              headers |-> LowerHeaders(last.headers),
              body |-> Concat(beh.outputs)]

NoResponse == [error |-> "unset"]
Response(status_code) ==
    [error |-> "none", status_code |-> status_code, headers |-> <<>>,
     body |-> <<>>]

\* A request has arrived: __call__ is about to run.
WSGIInit ==
    /\ scope \in HttpScopes \cup OtherScopes
    /\ max_body_size \in 0..MaxBodySize
    /\ w_pc = "call"
    /\ body = <<>>
    /\ receive_calls = 0
    /\ received = <<>>
    /\ environ = NotBuilt
    /\ spawn_calls = 0
    /\ app_calls = 0
    /\ response = NoResponse
    /\ sent = <<>>
    /\ w_error = "none"
    /\ trace = <<>>

\* No request: the adapter's variables stay as they are.
WSGIParked ==
    /\ scope = [type |-> "lifespan", path |-> <<>>, has_root_path |-> FALSE,
                root_path |-> <<>>, headers |-> <<>>]
    /\ max_body_size = 0
    /\ w_pc = "parked"
    /\ body = <<>>
    /\ receive_calls = 0
    /\ received = <<>>
    /\ environ = NotBuilt
    /\ spawn_calls = 0
    /\ app_calls = 0
    /\ response = NoResponse
    /\ sent = <<>>
    /\ w_error = "none"
    /\ trace = <<>>

\* Mutant: only http is told apart; every other scope gets a close event.
WSGICallClosesAll ==
    /\ w_pc = "call"
    /\ IF scope.type = "http"
       THEN /\ w_pc' = "receive"
            /\ UNCHANGED <<sent, trace>>
       ELSE /\ sent' = Append(sent, [type |-> "websocket.close"])
            /\ trace' = Append(trace, "send")
            /\ w_pc' = "done"
    /\ UNCHANGED <<scope, max_body_size, body, receive_calls, received,
                   environ, spawn_calls, app_calls, response, w_error, lvars>>

\* __call__ up to its first suspension: the dispatch on scope["type"].
WSGICall ==
    /\ w_pc = "call"
    /\ IF scope.type = "http"
       THEN /\ w_pc' = "receive"
            /\ UNCHANGED <<sent, w_error, trace>>
       ELSE IF scope.type = "websocket"
       THEN /\ sent' = Append(sent, [type |-> "websocket.close"])
            /\ trace' = Append(trace, "send")
            /\ w_pc' = "done"
            /\ UNCHANGED w_error
       ELSE IF scope.type = "lifespan"
       THEN /\ w_pc' = "done"
            /\ UNCHANGED <<sent, w_error, trace>>
       ELSE /\ w_pc' = "raised"
            /\ w_error' = "Exception"
            /\ UNCHANGED <<sent, trace>>
    /\ UNCHANGED <<scope, max_body_size, body, receive_calls, received,
                   environ, spawn_calls, app_calls, response, lvars>>

\* Mutant: a body of exactly max_body_size bytes is too large.
TooLargeAtLimit(b) == Len(b) >= max_body_size

\* Mutant: the size check lets one byte too many through.
TooLargeOffByOne(b) == Len(b) > max_body_size + 1

\* len(body) > self.max_body_size
TooLarge(b) == Len(b) > max_body_size

\* Mutant: handle_http calls run_app itself instead of handing it to
\* sync_spawn.
HandleHttpRunsAppDirectly(message) ==
    LET b == body \o MessageBody(message)
        env == BuildEnviron(scope, b)
    IN  /\ w_pc = "receive"
        /\ (message.more_body /\ ~TooLarge(b)) =>
               receive_calls + 1 < MaxReceives
        /\ receive_calls' = receive_calls + 1
        /\ received' = Append(received, message)
        /\ body' = b
        /\ IF TooLarge(b)
           THEN /\ response' = Response(400)
                /\ w_pc' = "send_start"
                /\ trace' = Append(trace, "receive")
                /\ UNCHANGED environ
           ELSE IF message.more_body
           THEN /\ w_pc' = "receive"
                /\ trace' = Append(trace, "receive")
                /\ UNCHANGED <<environ, response>>
           ELSE /\ environ' = env
                /\ trace' = trace \o <<"receive", "environ">>
                /\ IF env.error = "InvalidPathError"
                   THEN /\ response' = Response(404)
                        /\ w_pc' = "send_start"
                   ELSE /\ w_pc' = "spawned"
                        /\ UNCHANGED response
        /\ UNCHANGED <<scope, max_body_size, spawn_calls, app_calls, sent,
                       w_error, lvars>>

\* handle_http from one receive() result to its next suspension or return.
HandleHttp(message) ==
    LET b == body \o MessageBody(message)
        env == BuildEnviron(scope, b)
    IN  /\ w_pc = "receive"
        /\ (message.more_body /\ ~TooLarge(b)) =>
               receive_calls + 1 < MaxReceives
        /\ receive_calls' = receive_calls + 1
        /\ received' = Append(received, message)
        /\ body' = b
        /\ IF TooLarge(b)
           THEN /\ response' = Response(400)
                /\ w_pc' = "send_start"
                /\ trace' = Append(trace, "receive")
                /\ UNCHANGED <<environ, spawn_calls>>
           ELSE IF message.more_body
           THEN /\ w_pc' = "receive"
                /\ trace' = Append(trace, "receive")
                /\ UNCHANGED <<environ, spawn_calls, response>>
           ELSE /\ environ' = env
                /\ trace' = trace \o <<"receive", "environ">>
                /\ IF env.error = "InvalidPathError"
                   THEN /\ response' = Response(404)
                        /\ w_pc' = "send_start"
                        /\ UNCHANGED spawn_calls
                   ELSE /\ spawn_calls' = spawn_calls + 1
                        /\ w_pc' = "spawned"
                        /\ UNCHANGED response
        /\ UNCHANGED <<scope, max_body_size, app_calls, sent, w_error, lvars>>

\* The offloaded run_app call completes and handle_http returns its
\* result, or the exception it raised leaves __call__.
RunApp(beh) ==
    LET r == RunAppResult(beh)
    IN  /\ w_pc = "spawned"
        /\ app_calls' = app_calls + 1
        /\ trace' = Append(trace, "app")
        /\ IF r.error = "none"
           THEN /\ response' = r
                /\ w_pc' = "send_start"
                /\ UNCHANGED w_error
           ELSE /\ w_pc' = "raised"
                /\ w_error' = r.error
                /\ UNCHANGED response
        /\ UNCHANGED <<scope, max_body_size, body, receive_calls, received,
                       environ, spawn_calls, sent, lvars>>

\* await send({"type": "http.response.start", ...})
SendStart ==
    /\ w_pc = "send_start"
    /\ sent' = Append(sent, [type |-> "http.response.start",
                             status |-> response.status_code,
                             headers |-> response.headers])
    /\ trace' = Append(trace, "send")
    /\ w_pc' = "send_body"
    /\ UNCHANGED <<scope, max_body_size, body, receive_calls, received,
                   environ, spawn_calls, app_calls, response, w_error, lvars>>

\* await send({"type": "http.response.body", ...}); __call__ returns.
SendBody ==
    /\ w_pc = "send_body"
    /\ sent' = Append(sent, [type |-> "http.response.body",
                             body |-> response.body])
    /\ trace' = Append(trace, "send")
    /\ w_pc' = "done"
    /\ UNCHANGED <<scope, max_body_size, body, receive_calls, received,
                   environ, spawn_calls, app_calls, response, w_error, lvars>>

Receive == \E message \in Messages : HandleHttp(message)
SyncSpawn == \E beh \in AppBehaviours : RunApp(beh)

\* ------------------------------------------- the environ builder alone

\* Longest path and root_path given to _build_environ by itself.
MaxEnvironPathLen == 2
\* Most headers of a scope.
MaxHeaders == 2

\* Header names: one name in lower and in upper case, a name that differs
\* from it by an underscore, and the two names with a key of their own,
\* one of them also capitalised.
HeaderNames ==
    {<<"x", "-", "a">>, <<"X", "-", "A">>, <<"x", "_", "a">>,
     content_length, content_type,
     <<"C", "o", "n", "t", "e", "n", "t", "-", "T", "y", "p", "e">>}
HeaderValues == {<<"1">>, <<"2">>}
HeaderSeqs == SeqsUpTo(HeaderNames \X HeaderValues, MaxHeaders)

\* The scopes _build_environ is tried on: every path against every root
\* path, and every header sequence.
EnvironScopes ==
    {[type |-> "http", path |-> p, has_root_path |-> TRUE, root_path |-> r,
      headers |-> <<>>] :
        p \in SeqsUpTo(PathChars, MaxEnvironPathLen),
        r \in SeqsUpTo(PathChars, MaxEnvironPathLen)}
    \cup {[type |-> "http", path |-> p, has_root_path |-> FALSE,
           root_path |-> <<>>, headers |-> <<>>] :
              p \in SeqsUpTo(PathChars, MaxEnvironPathLen)}
    \cup {[type |-> "http", path |-> <<"/">>, has_root_path |-> FALSE,
           root_path |-> <<>>, headers |-> h] : h \in HeaderSeqs}

\* _build_environ is about to be called on a scope and a buffered body.
EnvironInit ==
    /\ scope \in EnvironScopes
    /\ max_body_size = MaxBodySize
    /\ w_pc = "build"
    /\ body \in Chunks
    /\ receive_calls = 0
    /\ received = <<>>
    /\ environ = NotBuilt
    /\ spawn_calls = 0
    /\ app_calls = 0
    /\ response = NoResponse
    /\ sent = <<>>
    /\ w_error = "none"
    /\ trace = <<>>

\* environ = _build_environ(scope, body)
BuildEnvironCall ==
    /\ w_pc = "build"
    /\ environ' = BuildEnviron(scope, body)
    /\ w_pc' = "built"
    /\ UNCHANGED <<scope, max_body_size, body, receive_calls, received,
                   spawn_calls, app_calls, response, sent, w_error, trace,
                   lvars>>

\* ---------------------------------------------------- specifications

Init == LifespanInit /\ WSGIParked

Next ==
    \/ HandleLifespanStart
    \/ AsgiReceive
    \/ AppSends
    \/ AppCatches
    \/ AppPropagates
    \/ AppRaises
    \/ AppReturns
    \/ LogDone
    \/ CallWaitForStartup
    \/ CallWaitForShutdown
    \/ WaitForStartupStep
    \/ WaitForShutdownStep

Spec == Init /\ [][Next]_vars

\* One request through the WSGI adapter; the lifespan machine is not run.
InitWSGI == WSGIInit /\ LifespanInit /\ max_app_queue_size = 1

NextWSGI ==
    \/ WSGICall
    \/ Receive
    \/ SyncSpawn
    \/ SendStart
    \/ SendBody

SpecWSGI == InitWSGI /\ [][NextWSGI]_vars

\* _build_environ as a function of its arguments.
InitEnviron == EnvironInit /\ LifespanInit /\ max_app_queue_size = 1

NextEnviron == BuildEnvironCall

SpecEnviron == InitEnviron /\ [][NextEnviron]_vars

\* The event loop runs every task that can run, and a timer that was
\* started fires: each waiter call that can take a step takes one, and so
\* does handle_lifespan outside the application.  Nothing is assumed of
\* the application, nor of when the waiters are called.
Fairness ==
    /\ \A w \in Waiters : WF_vars(WaitForStartup(w))
    /\ \A w \in Waiters : WF_vars(WaitForShutdown(w))
    /\ WF_vars(HandleLifespanStart)
    /\ WF_vars(LogDone)

FairSpec == Init /\ [][Next]_vars /\ Fairness

\* ------------------------------------------------------------- claims

\* The stage a waiter call is about.
StageOf(w) == IF waiter[w].fn = "wait_for_startup" THEN "startup"
              ELSE "shutdown"

InProgress(w) == waiter[w].pc \in {"started_wait", "put", "signal_wait"}
Finished(w) == waiter[w].pc \in {"returned_unsupported", "returned", "raised"}

\* A waiter that cannot take a step: it is in app_queue.put and the queue
\* is full.
BlockedInPut(w) == waiter[w].pc = "put" /\ QueueFull

\* C1: once handle_lifespan has ended, for whatever reason, both
\* completion signals are set, and every waiter call in progress then or
\* begun later eventually finishes (returns, or fails with a timeout).
C1_WaitersNeverHang ==
    \A w \in Waiters :
        [](hl_pc = "done" =>
            /\ startup /\ shutdown
            /\ (InProgress(w) => <>Finished(w)))

\* Witness of C1's case: handle_lifespan has ended and a waiter call is
\* blocked in app_queue.put on a queue nothing will ever consume.
C1_BlockedAfterExit ==
    \E w \in Waiters : hl_pc = "done" /\ BlockedInPut(w)

\* The application call is over and exc left it uncaught.
LeftWith(exc) == hl_pc \in {"logging", "done"} /\ app_exc = exc

\* The step in which the application lets go of the exception exc that
\* asgi_send raised.
Propagating(exc) ==
    /\ hl_pc = "app_exc"
    /\ app_exc = exc
    /\ hl_pc' \notin {"app_exc", "in_app"}

\* C2: a send of lifespan.<stage>.failed sets the matching signal and
\* raises a lifespan failure carrying that stage; if the application does
\* not catch it, it leaves handle_lifespan (it is not absorbed, supported
\* stays true), and shutdown-complete is set for every waiter from then on.
C2_FailureIsFatal ==
    [][ /\ AsgiSend("lifespan.startup.failed") =>
               startup' /\ app_exc' = "failure_startup" /\ hl_pc' = "app_exc"
        /\ AsgiSend("lifespan.shutdown.failed") =>
               shutdown' /\ app_exc' = "failure_shutdown" /\ hl_pc' = "app_exc"
        /\ \A stage \in Stages :
               Propagating("failure_" \o stage) =>
                   /\ hl_pc' = "done"
                   /\ hl_result' = "crashed"
                   /\ hl_error' = stage
                   /\ supported' = supported
                   /\ log' = log
                   /\ shutdown'
        /\ hl_result' = "crashed" => supported' /\ shutdown' /\ startup'
      ]_vars

\* Witness of C2: a shutdown failure has left handle_lifespan and a
\* wait_for_shutdown call has returned on the signal.
C2_Witness ==
    /\ hl_result = "crashed"
    /\ hl_error = "shutdown"
    /\ LeftWith("failure_shutdown")
    /\ \E w \in Waiters :
           waiter[w].fn = "wait_for_shutdown" /\ waiter[w].pc = "returned"

\* What C3 and its amendment share: a message of no known kind makes
\* asgi_send raise at once, no signal set.
UnexpectedRaisesAtOnce ==
    AsgiSend("other") =>
        /\ UNCHANGED <<startup, shutdown>>
        /\ app_exc' = "unexpected"
        /\ hl_pc' = "app_exc"

\* C3 as claimed: a message of no known kind makes asgi_send raise at
\* once without setting a signal, and the error, when the application does
\* not catch it, leaves handle_lifespan as a fatal error instead of being
\* handled as "lifespan unsupported".
C3_UnexpectedIsFatal ==
    [][ /\ UnexpectedRaisesAtOnce
        /\ Propagating("unexpected") =>
               /\ hl_pc' = "done"
               /\ hl_result' = "crashed"
               /\ supported'
      ]_vars

\* C3 as amended: a message of no known kind makes asgi_send raise at once
\* without setting a signal; when the application does not catch it,
\* handle_lifespan absorbs it as "lifespan unsupported": supported becomes
\* false, one record is logged, and the task ends with both signals set
\* and no error.
C3_UnexpectedIsAbsorbed ==
    [][ /\ UnexpectedRaisesAtOnce
        /\ Propagating("unexpected") =>
               /\ hl_pc' = "logging"
               /\ ~supported'
               /\ Len(log') = Len(log) + 1
               /\ UNCHANGED <<startup, shutdown>>
        /\ (hl_pc' = "done" /\ LeftWith("unexpected")') =>
               /\ hl_result' = "absorbed"
               /\ ~supported'
               /\ startup' /\ shutdown'
      ]_vars

\* Witness of C3: an unexpected-message error left the application and
\* handle_lifespan ended without an error.
C3_Witness ==
    /\ hl_pc = "done"
    /\ LeftWith("unexpected")
    /\ hl_result = "absorbed"
    /\ ~supported

\* C4: a waiter call that found lifespan supported and its signal unset
\* blocks until the signal is set or its timeout elapses, whichever is
\* first: it has not returned while the signal is unset, it is not blocked
\* once the signal is set, and the timeout it fails with carries its stage.
C4_BlocksUntilSignalOrTimeout ==
    \A w \in Waiters :
        waiter[w].early =>
            /\ waiter[w].pc = "returned" => Signal(StageOf(w))
            /\ waiter[w].pc = "raised" => waiter[w].err = StageOf(w)
            /\ Signal(StageOf(w)) => ~BlockedInPut(w)

\* The except Exception clause ran while startup-complete was unset.
RaisedBeforeStartup == log = <<"warning">>

C10_WaitersOnlyEnqueue ==
    [][ \A w \in Waiters :
            waiter'[w] # waiter[w] =>
                /\ UNCHANGED <<supported, started, startup, shutdown, hl_pc,
                               app_exc, hl_result, hl_error, log, delivered>>
                /\ \/ app_queue' = app_queue
                   \/ /\ app_queue' = Append(app_queue, Request(StageOf(w)))
                      /\ waiter[w].pc \in {"started_wait", "put"}
                      /\ waiter'[w].pc = "signal_wait"
                /\ waiter'[w].pc = "raised" => app_queue' = app_queue
      ]_vars

\* Witness of C10: a call has timed out, its request is still enqueued,
\* and the application is running and has yet to complete the stage.
C10_Witness ==
    \E w \in Waiters :
        /\ waiter[w].pc = "raised"
        /\ waiter[w].enq
        /\ hl_pc = "in_app"
        /\ ~Signal(StageOf(w))
        /\ app_queue = <<Request(StageOf(w))>>

\* scope.get("root_path", "")
RootPathOf(sc) == IF sc.has_root_path THEN sc.root_path ELSE <<>>

\* The path begins with the root path, character by character.
PathUnderRoot(sc) ==
    /\ Len(RootPathOf(sc)) <= Len(sc.path)
    /\ \A i \in 1..Len(RootPathOf(sc)) : sc.path[i] = RootPathOf(sc)[i]

\* The total size of the first k bodies receive() returned.
RECURSIVE SizeOfFirst(_)
SizeOfFirst(k) ==
    IF k = 0 THEN 0
    ELSE SizeOfFirst(k - 1) + Len(MessageBody(received[k]))

\* __call__ has returned or raised.
WSGIOver == w_pc \in {"done", "raised"}

\* The two events of an http response, in order.
StartThenBody ==
    /\ Len(sent) = 2
    /\ sent[1].type = "http.response.start"
    /\ sent[2].type = "http.response.body"

\* C6: for an http scope __call__ sends exactly two events, response
\* start then response body, never more or fewer, whatever the
\* application does with start_response (an exception the application
\* raises by itself is left aside).
C6_ExactlyTwoEvents ==
    scope.type = "http" =>
        /\ Len(sent) <= 2
        /\ (WSGIOver /\ w_error # "ApplicationError") => StartThenBody

\* Reached on the way to C6's violation: the application ran without ever
\* calling start_response and __call__ ended having sent nothing.
C6_NoStartResponse ==
    /\ scope.type = "http"
    /\ w_pc = "raised"
    /\ w_error = "UnboundLocalError"
    /\ sent = <<>>

\* C7: when the body's total size first exceeds max_body_size on chunk k,
\* handle_http returns (400, [], b"") right after chunk k: receive is not
\* called again, the environ is not built, the application is not run,
\* whether or not the path is under the root path.
C7_SizeAbort ==
    \A k \in 1..Len(received) :
        SizeOfFirst(k) > max_body_size =>
            /\ Len(received) = k
            /\ receive_calls = k
            /\ w_pc \in {"send_start", "send_body", "done"}
            /\ response = Response(400)
            /\ environ = NotBuilt
            /\ spawn_calls = 0
            /\ app_calls = 0
            /\ w_error = "none"
            /\ \A i \in 1..Len(sent) :
                   /\ sent[i].type = "http.response.start" =>
                          sent[i].status = 400 /\ sent[i].headers = <<>>
                   /\ sent[i].type = "http.response.body" =>
                          sent[i].body = <<>>

\* Witness of C7: the second chunk took the body over the limit, the path
\* is not under the root path, and the 400 response went out.
C7_Witness ==
    /\ w_pc = "done"
    /\ Len(received) = 2
    /\ SizeOfFirst(1) <= max_body_size
    /\ SizeOfFirst(2) > max_body_size
    /\ received[2].more_body
    /\ ~PathUnderRoot(scope)
    /\ StartThenBody
    /\ sent[1].status = 400

\* C8: when the whole body is within the limit and the path is not under
\* the root path, handle_http returns (404, [], b""), the application is
\* never run, and no exception leaves __call__.
C8_PathMismatch ==
    ( /\ scope.type = "http"
      /\ ~PathUnderRoot(scope)
      /\ w_pc \notin {"call", "receive"}
      /\ SizeOfFirst(Len(received)) <= max_body_size ) =>
        /\ environ.error = "InvalidPathError"
        /\ response = Response(404)
        /\ spawn_calls = 0
        /\ app_calls = 0
        /\ w_error = "none"
        /\ w_pc \in {"send_start", "send_body", "done"}
        /\ w_pc = "done" => StartThenBody /\ sent[1].status = 404

\* Witness of C8: a request whose path is not under the root path was
\* answered 404 without the application.
C8_Witness ==
    /\ scope.type = "http"
    /\ ~PathUnderRoot(scope)
    /\ w_pc = "done"
    /\ environ.error = "InvalidPathError"
    /\ StartThenBody
    /\ sent[1].status = 404
    /\ sent[1].headers = <<>>
    /\ sent[2].body = <<>>

\* C9: on a websocket scope __call__ sends one close event and nothing
\* else, on a lifespan scope it sends nothing, on any other type that is
\* not http it raises and sends nothing; in none of these cases is receive
\* called, the application run or the offload primitive used.
C9_NonHttpScopes ==
    scope.type # "http" =>
        /\ receive_calls = 0
        /\ spawn_calls = 0
        /\ app_calls = 0
        /\ IF scope.type = "websocket"
           THEN \/ w_pc = "call" /\ sent = <<>>
                \/ /\ w_pc = "done"
                   /\ sent = <<[type |-> "websocket.close"]>>
                   /\ w_error = "none"
           ELSE IF scope.type = "lifespan"
           THEN /\ sent = <<>>
                /\ w_pc \in {"call", "done"}
                /\ w_error = "none"
           ELSE /\ sent = <<>>
                /\ \/ w_pc = "call"
                   \/ w_pc = "raised" /\ w_error = "Exception"

\* Witness of C9: a scope of an unknown type made __call__ raise.
C9_Witness ==
    /\ scope.type = "other"
    /\ w_pc = "raised"
    /\ w_error = "Exception"
    /\ sent = <<>>

\* The path without its first Len(root_path) characters, "/" when none
\* is left.
PathAfterRoot(sc) ==
    IF Len(sc.path) = Len(RootPathOf(sc)) THEN <<"/">>
    ELSE [i \in 1..(Len(sc.path) - Len(RootPathOf(sc))) |->
             sc.path[i + Len(RootPathOf(sc))]]

\* C11 as claimed: _build_environ succeeds exactly when path starts with
\* root_path (empty when the scope has none); then PATH_INFO is the rest
\* of the path, "/" when the rest is empty, and SCRIPT_NAME is root_path;
\* otherwise it fails with the path-mismatch condition and yields no
\* mapping.
C11_PathRule ==
    w_pc = "built" =>
        IF PathUnderRoot(scope)
        THEN /\ environ.error = "none"
             /\ environ.PATH_INFO = PathAfterRoot(scope)
             /\ environ.SCRIPT_NAME = RootPathOf(scope)
        ELSE environ = [error |-> "InvalidPathError"]

\* C11 as amended: _build_environ succeeds exactly when path starts with
\* root_path (empty when the scope has none); then PATH_INFO is the rest
\* of the path, "/" when the rest is empty, and SCRIPT_NAME is root_path,
\* each as the Latin-1 reading of its UTF-8 encoding (itself when it is
\* ASCII); otherwise it fails with the path-mismatch condition and yields
\* no mapping.
C11_PathRuleAsLatin1 ==
    w_pc = "built" =>
        IF PathUnderRoot(scope)
        THEN /\ environ.error = "none"
             /\ environ.PATH_INFO = Utf8AsLatin1(PathAfterRoot(scope))
             /\ environ.SCRIPT_NAME = Utf8AsLatin1(RootPathOf(scope))
             /\ (\A i \in 1..Len(scope.path) : scope.path[i] = "/") =>
                    /\ environ.PATH_INFO = PathAfterRoot(scope)
                    /\ environ.SCRIPT_NAME = RootPathOf(scope)
        ELSE environ = [error |-> "InvalidPathError"]

\* Witness of C11: a path under a root path of its own, with a character
\* outside ASCII left after it, was built into an environ.
C11_Witness ==
    /\ w_pc = "built"
    /\ environ.error = "none"
    /\ RootPathOf(scope) # <<>>
    /\ Len(scope.path) > Len(RootPathOf(scope))
    /\ environ.PATH_INFO # PathAfterRoot(scope)
    /\ environ.PATH_INFO = Utf8AsLatin1(PathAfterRoot(scope))

\* A header name in lower case.
LowerName(name) ==
    [i \in 1..Len(name) |->
        IF \E k \in DOMAIN UpperLetters : UpperLetters[k] = name[i]
        THEN LowerLetters[CHOOSE k \in DOMAIN UpperLetters :
                              UpperLetters[k] = name[i]]
        ELSE name[i]]

\* The values of the headers at the positions S, from position i on,
\* joined by commas in arrival order.
RECURSIVE JoinedFrom(_, _, _)
JoinedFrom(headers, S, i) ==
    IF i > Len(headers) THEN <<>>
    ELSE IF i \notin S THEN JoinedFrom(headers, S, i + 1)
    ELSE IF \E j \in S : j > i
    THEN headers[i][2] \o <<",">> \o JoinedFrom(headers, S, i + 1)
    ELSE headers[i][2]

\* The key the claim gives a header name, whatever its case.
KeyOfName(name) ==
    IF LowerName(name) = content_length THEN CONTENT_LENGTH
    ELSE IF LowerName(name) = content_type THEN CONTENT_TYPE
    ELSE HTTP_ \o UpperUnderscored(name)

\* C12 as claimed: the occurrences of one header name, compared without
\* regard to case, are folded into a single environ entry whose value is
\* the occurrences' values joined by commas in arrival order, under
\* CONTENT_LENGTH, CONTENT_TYPE or HTTP_ plus the upper-cased name with
\* hyphens replaced by underscores; no value is dropped or reordered.
C12_FoldedByName ==
    (w_pc = "built" /\ environ.error = "none") =>
        /\ DOMAIN environ.headers =
               {KeyOfName(scope.headers[i][1]) : i \in DOMAIN scope.headers}
        /\ \A i \in DOMAIN scope.headers :
               environ.headers[KeyOfName(scope.headers[i][1])] =
                   JoinedFrom(scope.headers,
                              {j \in DOMAIN scope.headers :
                                  LowerName(scope.headers[j][1]) =
                                      LowerName(scope.headers[i][1])},
                              1)

\* C12 as amended: the headers that derive the same key are folded into a
\* single environ entry whose value is their values joined by commas in
\* arrival order; the key is CONTENT_LENGTH or CONTENT_TYPE for exactly the
\* lower-case names content-length and content-type, and HTTP_ plus the
\* upper-cased name with hyphens replaced by underscores for every other
\* name; no value is dropped or reordered.
C12_FoldedByKey ==
    (w_pc = "built" /\ environ.error = "none") =>
        /\ DOMAIN environ.headers =
               {CorrectedName(scope.headers[i][1]) :
                   i \in DOMAIN scope.headers}
        /\ \A i \in DOMAIN scope.headers :
               environ.headers[CorrectedName(scope.headers[i][1])] =
                   JoinedFrom(scope.headers,
                              {j \in DOMAIN scope.headers :
                                  CorrectedName(scope.headers[j][1]) =
                                      CorrectedName(scope.headers[i][1])},
                              1)

\* Witness of C12: two headers of different spelling and value share a key
\* and were folded, first value first.
C12_Witness ==
    /\ w_pc = "built"
    /\ environ.error = "none"
    /\ Len(scope.headers) = 2
    /\ scope.headers[1][1] # scope.headers[2][1]
    /\ scope.headers[1][2] # scope.headers[2][2]
    /\ DOMAIN environ.headers = {CorrectedName(scope.headers[1][1])}
    /\ environ.headers[CorrectedName(scope.headers[1][1])] =
           scope.headers[1][2] \o <<",">> \o scope.headers[2][2]

\* The place of a step in a request: receive calls, then the environ,
\* then the application, then the events sent.
StepRank(step) ==
    IF step = "receive" THEN 1
    ELSE IF step = "environ" THEN 2
    ELSE IF step = "app" THEN 3
    ELSE 4

\* How many times a step occurs in the trace.
Occurrences(step) == Cardinality({i \in DOMAIN trace : trace[i] = step})

\* Neither the size nor the path precondition fails for what was received.
PreconditionsHold ==
    /\ \A k \in 1..Len(received) : SizeOfFirst(k) <= max_body_size
    /\ PathUnderRoot(scope)

\* C13: within one http request every receive call precedes the environ
\* construction, which precedes the application invocation, which precedes
\* the response-start event, which precedes the response-body event; the
\* application is invoked at most once, only through the offload
\* primitive, and exactly once when neither the size nor the path
\* precondition fails.
C13_StepsInOrder ==
    scope.type = "http" =>
        /\ \A i, j \in DOMAIN trace :
               i < j => StepRank(trace[i]) <= StepRank(trace[j])
        /\ Occurrences("receive") = receive_calls
        /\ Occurrences("environ") <= 1
        /\ Occurrences("environ") = 1 <=> environ # NotBuilt
        /\ Occurrences("app") = app_calls
        /\ Occurrences("send") = Len(sent)
        /\ \A i \in DOMAIN sent :
               /\ sent[i].type = "http.response.start" => i = 1
               /\ sent[i].type = "http.response.body" =>
                      i = 2 /\ sent[1].type = "http.response.start"
        /\ app_calls <= 1
        /\ app_calls <= spawn_calls
        /\ spawn_calls <= 1
        /\ spawn_calls = 1 => environ # NotBuilt /\ environ.error = "none"
        /\ (WSGIOver /\ PreconditionsHold) =>
               app_calls = 1 /\ spawn_calls = 1
        /\ (w_pc \in {"send_start", "send_body"} /\ PreconditionsHold) =>
               app_calls = 1 /\ spawn_calls = 1
        /\ ~PreconditionsHold => app_calls = 0 /\ spawn_calls = 0

\* Witness of C13: a request with two body chunks went through every
\* step, and the application ran once.
C13_Witness ==
    /\ scope.type = "http"
    /\ w_pc = "done"
    /\ trace = <<"receive", "receive", "environ", "app", "send", "send">>
    /\ app_calls = 1
    /\ spawn_calls = 1
    /\ StartThenBody

\* A waiter call is past the started barrier and found lifespan supported.
PassedBarrier(w) == waiter[w].pc \in {"put", "signal_wait"}

\* What C14 and its amendment share: no waiter call enqueues a message or
\* starts its timed wait before the started signal is set, and a call that
\* finds lifespan unsupported returns at once without enqueuing.
BarrierThenSupportCheck(w) ==
    /\ (waiter[w].pc = "started_wait" /\ waiter'[w] # waiter[w]) =>
           /\ started
           /\ ~supported =>
                  /\ waiter'[w].pc = "returned_unsupported"
                  /\ app_queue' = app_queue
    /\ (~PassedBarrier(w) /\ PassedBarrier(w)') => started /\ supported

C15_BoundedQueue ==
    [][ /\ max_app_queue_size' > 0
        /\ Len(app_queue') <= max_app_queue_size'
        /\ app_queue' # app_queue =>
               \/ /\ \E stage \in Stages :
                         app_queue' = Append(app_queue, Request(stage))
                  /\ Len(app_queue) < max_app_queue_size
                  /\ delivered' = delivered
               \/ /\ app_queue # <<>>
                  /\ app_queue' = Tail(app_queue)
                  /\ delivered' = Append(delivered, Head(app_queue))
        /\ delivered' # delivered => app_queue' # app_queue
        /\ \A w \in Waiters :
               /\ ( /\ waiter[w].pc = "started_wait"
                    /\ waiter'[w] # waiter[w]
                    /\ supported
                    /\ Len(app_queue) = max_app_queue_size ) =>
                      waiter'[w].pc = "put" /\ app_queue' = app_queue
               /\ (waiter[w].pc = "put" /\ waiter'[w] # waiter[w]) =>
                      /\ Len(app_queue) < max_app_queue_size
                      /\ app_queue' = Append(app_queue, Request(StageOf(w)))
      ]_vars

\* Witness of C15: the application is running without having received,
\* the queue is at its capacity and a later call is blocked in put.
C15_Witness ==
    /\ hl_pc = "in_app"
    /\ delivered = <<>>
    /\ Len(app_queue) = max_app_queue_size
    /\ \E v, w \in Waiters :
           /\ waiter[v].enq
           /\ waiter[w].pc = "put"
           /\ ~waiter[w].enq

\* The step in which an exception that is no lifespan failure leaves the
\* application call: one the application raised itself, or the one
\* asgi_send raised for a message of no known kind.
OtherExceptionLeaves ==
    \/ hl_pc = "in_app" /\ hl_pc' # "in_app" /\ app_exc' = "exception"
    \/ Propagating("unexpected")

C17_StagesInOrder == shutdown => startup

\* Reached on the way to C17's violation: the application is running,
\* shutdown-complete is set and startup-complete is not.
C17_ShutdownBeforeStartup ==
    /\ hl_pc = "in_app"
    /\ shutdown
    /\ ~startup
    /\ supported

\* C18: the three signals are one-shot and supported is monotone: no step
\* (a message of the application, a waiter call, a timeout, the end of the
\* application) clears started, startup-complete or shutdown-complete once
\* set, or sets supported again once it is false.
C18_OneShotSignals ==
    [][ /\ started => started'
        /\ startup => startup'
        /\ shutdown => shutdown'
        /\ ~supported => ~supported'
      ]_vars

\* Witness of C18: the application raised after startup-complete, one
\* call timed out and another found lifespan unsupported; everything set
\* is still set and supported is false.
C18_Witness ==
    /\ hl_pc = "done"
    /\ hl_result = "absorbed"
    /\ log = <<"error">>
    /\ started /\ startup /\ shutdown
    /\ ~supported
    /\ \E v, w \in Waiters :
           /\ waiter[v].pc = "raised"
           /\ waiter[w].pc = "returned_unsupported"

\* The application call has ended by raising an exception that is no
\* lifespan failure.
EndedByOtherException == LeftWith("exception") \/ LeftWith("unexpected")

RECURSIVE PayloadsOfFirst(_)
PayloadsOfFirst(k) ==
    IF k = 0 THEN <<>>
    ELSE PayloadsOfFirst(k - 1) \o MessageBody(received[k])

\* C20: the size limit is inclusive: a body stream whose running total
\* never exceeds max_body_size, one that totals exactly max_body_size
\* included, is never answered with the 400 of the size check; receive is
\* called until the first event without more_body and no further; and the
\* buffer _build_environ is given is the payloads of all the events,
\* concatenated in arrival order.
C20_InclusiveLimit ==
    ( /\ scope.type = "http"
      /\ \A k \in 1..Len(received) : SizeOfFirst(k) <= max_body_size ) =>
        /\ response # Response(400)
        /\ \A i \in DOMAIN sent :
               sent[i].type = "http.response.start" => sent[i].status # 400
        /\ receive_calls = Len(received)
        /\ body = PayloadsOfFirst(Len(received))
        /\ \A k \in 1..(Len(received) - 1) : received[k].more_body
        /\ w_pc = "receive" =>
               /\ environ = NotBuilt
               /\ received # <<>> => received[Len(received)].more_body
        /\ w_pc \notin {"call", "receive"} =>
               /\ received # <<>>
               /\ ~received[Len(received)].more_body
               /\ environ # NotBuilt
               /\ environ.error = "none" =>
                      environ.wsgi_input = PayloadsOfFirst(Len(received))
               /\ environ.error = "none" <=> spawn_calls = 1

\* Witness of C20: two chunks that together are exactly max_body_size
\* bytes reached the application as one buffer, first chunk first.
C20_Witness ==
    /\ scope.type = "http"
    /\ w_pc = "done"
    /\ app_calls = 1
    /\ Len(received) = 2
    /\ received[1].body # <<>>
    /\ received[2].body # <<>>
    /\ received[1].body # received[2].body
    /\ SizeOfFirst(2) = max_body_size
    /\ environ.error = "none"
    /\ environ.wsgi_input = received[1].body \o received[2].body
    /\ StartThenBody
    /\ sent[1].status = 200

=============================================================================
